---- MODULE Spec2Model ----
(***************************************************************************)
(* Recording processing pipeline of Twin (komuchi): the Recording status   *)
(* field, the Job ledger, the Transcript / Debrief rows, the two BullMQ    *)
(* queues with their workers, and the route handlers that drive them.      *)
(*                                                                         *)
(* One step of the model is one awaited operation of the code (a database  *)
(* write or read, a queue add).  Awaited calls that touch no row and no    *)
(* queue (presigned URL, the provider calls, job.updateProgress) are       *)
(* folded into the next step of the same function: they commute with every *)
(* step of every other process.  A throw of any awaited call of a try      *)
(* block is the Throw step taken at the position of the call.              *)
(*                                                                         *)
(* One Recording row is modelled (every operation is keyed by the          *)
(* recording id and touches no other recording).                           *)
(*                                                                         *)
(* The web client is modelled next to it: the backoff poller of the        *)
(* detail page with the retry buttons the page renders, and the upload     *)
(* transport.  Each has a specification of its own, in which the server is *)
(* what the results it returns say it is.                                  *)
(***************************************************************************)
EXTENDS Integers, Sequences, FiniteSets, TLC

\* ------------------------------------------------------------------ bounds
MaxRequests == 3      \* valid requests of the owner (route and service calls) in a run
MaxInFlight == 1      \* route handlers executing at the same time
MaxThrows == 3        \* awaited calls that throw in a run
MaxBoundaryThrows == 1  \* the same, in runs with requests the boundary turns away

\* ------------------------------------------------------- program constants
MaxAttempts == 3      \* queue attempts per unit of work
Concurrency == 2      \* simultaneously active units per worker
TitleMax == 255       \* createRecordingSchema: title max length

RecordingId == 1

VARIABLES
  recording,            \* the Recording row, or NoRecording before it is created
  objectStored,         \* the storage object of the recording exists
  jobs,                 \* Job rows in creation order; a row's id is its index
  transcripts,          \* Transcript rows
  debriefs,             \* Debrief rows
  transcriptionQueue,   \* units of work of the transcription queue
  debriefQueue,         \* units of work of the debrief queue
  handlers,             \* route handlers in flight, by slot
  requests,             \* number of valid requests the owner has issued so far
  throws,               \* number of awaited calls that may still throw
  poller,               \* the recording poller of the detail page (web client)
  upload,               \* one call of uploadToPresignedUrl (web client)
  page                  \* what the detail page renders (web client)

vars == <<recording, objectStored, jobs, transcripts, debriefs,
          transcriptionQueue, debriefQueue, handlers, requests, throws,
          poller, upload, page>>

\* the state of the API process and its stores, and the state of the web client
server == <<recording, objectStored, jobs, transcripts, debriefs,
            transcriptionQueue, debriefQueue, handlers, requests, throws>>
client == <<poller, upload, page>>

db == <<recording, jobs, transcripts, debriefs>>
queues == <<transcriptionQueue, debriefQueue>>

NoRecording == [status |-> "absent", objectKey |-> FALSE]
Users == {"none", "owner", "other"}
Slots == DOMAIN handlers

ALLOWED_MIME_TYPES ==
  {"audio/mpeg", "audio/wav", "audio/webm", "audio/ogg",
   "audio/mp4", "audio/m4a", "audio/x-m4a", "audio/flac"}

MimeInputs == {"audio/webm", "video/mp4"}
TitleInputs == {0, 1, TitleMax + 1}

isAllowedMimeType(mimeType) == mimeType \in ALLOWED_MIME_TYPES

\* createRecordingSchema.safeParse: title 1..255 characters, mimeType non-empty
createRecordingSchema(titleLen, mimeType) ==
  titleLen >= 1 /\ titleLen <= TitleMax /\ mimeType # ""

\* completeUploadBodySchema.safeParse: fileSize absent (0 here) or a positive integer
FileSizeInputs == {-1, 0, 2097152}
completeUploadBodySchema(fileSize) == fileSize >= 0

\* ------------------------------------------------------------ persistence
\* db.job.create({ data: { recordingId, type, status: 'pending' } })
jobCreate(js, type) ==
  Append(js, [type |-> type, status |-> "pending", error |-> 0,
              startedAt |-> FALSE, completedAt |-> FALSE])

\* createJob of the jobs service, as the orchestrator contract describes it: the
\* Job row of the stage is created pending
createJob(js, type) == jobCreate(js, type)

\* updateJobStatus of both queue files: an unconditional row update
updateJobStatus(js, jobId, status, error) ==
  LET old == js[jobId] IN
  [js EXCEPT ![jobId] =
     [type |-> old.type,
      status |-> status,
      error |-> IF error # 0 THEN error ELSE old.error,
      startedAt |-> IF status = "running" THEN TRUE ELSE old.startedAt,
      completedAt |-> IF status \in {"complete", "failed"} THEN TRUE
                      ELSE old.completedAt]]

\* db.recording.update({ data: { status } })
updateRecordingStatus(rec, status) == [rec EXCEPT !.status = status]

\* completeUpload: status uploaded (and the file size, not modelled)
completeUpload(rec) == [rec EXCEPT !.status = "uploaded"]

\* the rows of a table that belong to the recording
RowsOf(rows, id) == {i \in 1 .. Len(rows) : rows[i].recordingId = id}

\* the row a lookup by the unique key recordingId returns
FirstRow(rows, id) ==
  CHOOSE k \in RowsOf(rows, id) : \A m \in RowsOf(rows, id) : k <= m

\* db.transcript.upsert / db.debrief.upsert, where: { recordingId }
upsert(rows, id, text) ==
  IF RowsOf(rows, id) # {}
  THEN [rows EXCEPT ![FirstRow(rows, id)] = [recordingId |-> id, text |-> text]]
  ELSE Append(rows, [recordingId |-> id, text |-> text])

\* recording.transcript / recording.debrief of an include; 0 when there is no row
relationOf(rows, id) ==
  IF RowsOf(rows, id) = {} THEN 0 ELSE rows[FirstRow(rows, id)].text

\* ------------------------------------------------------------------ queues
\* a unit of work as queue.add stores it: the payload (jobId, transcriptText), the
\* queue's own bookkeeping (pc, attemptsMade) and the processor's locals
Ticket(jobId, text) ==
  [jobId |-> jobId, text |-> text, pc |-> "wait", attemptsMade |-> 0,
   debriefJobId |-> 0, failedJob |-> FALSE]

\* enqueueTranscriptionJob: transcriptionQueue.add(name, data, { jobId })
enqueueTranscriptionJob(q, jobId) == Append(q, Ticket(jobId, 0))

\* enqueueDebriefJob / debriefQueue.add: the payload carries the transcript text
enqueueDebriefJob(q, jobId, transcriptText) == Append(q, Ticket(jobId, transcriptText))

Resting == {"wait", "completed", "failed"}
Active(q) == {i \in 1 .. Len(q) : q[i].pc \notin Resting}
Tickets(q) == 1 .. Len(q)

\* a unit of work that has left the queue: only its payload's job id is kept
Finished(t, pc) == [Ticket(t.jobId, 0) EXCEPT !.pc = pc]

\* BullMQ hands a waiting unit of work to a worker with a free slot
CanDispatch(q, i) ==
  /\ i \in Tickets(q)
  /\ q[i].pc = "wait"
  /\ Cardinality(Active(q)) < Concurrency

\* BullMQ after the processor threw: another attempt while attempts remain
Requeue(t) ==
  IF t.attemptsMade < MaxAttempts
  THEN [t EXCEPT !.pc = "wait", !.failedJob = FALSE, !.debriefJobId = 0]
  ELSE Finished(t, "failed")

\* ------------------------------------------------------------- job ledger
\* the Job rows of a stage, and the most recently created one
JobsOfType(type) == {j \in 1 .. Len(jobs) : jobs[j].type = type}
LatestJob(type) == CHOOSE j \in JobsOfType(type) : \A k \in JobsOfType(type) : k <= j

\* ---------------------------------------------------------- route handlers
\* a handler's position (op, pc), its locals (user, text, jobId), its reply (code),
\* and what it has done so far: written a row or a queue (mutated), added a unit of
\* work to a queue (enqueued), written status processing (processing)
Idle == [op |-> "idle", user |-> "none", pc |-> "", code |-> 0, text |-> 0,
         jobId |-> 0, mutated |-> FALSE, enqueued |-> FALSE, processing |-> FALSE]

Handler(op, user, pc) == [Idle EXCEPT !.op = op, !.user = user, !.pc = pc]

FreeSlots == {s \in Slots : handlers[s] = Idle}
FreeSlot == CHOOSE s \in FreeSlots : \A r \in FreeSlots : s <= r

SlotIds == 1 .. MaxInFlight + 1

At(s, op, pc) == s \in Slots /\ handlers[s].op = op /\ handlers[s].pc = pc

\* reply.status(code).send(...): the handler returns; only the response is left
Replied(h, code) == [h EXCEPT !.pc = "replied", !.code = code, !.text = 0, !.jobId = 0]

\* the request is answered before any await
Reject(op, user, code) ==
  /\ FreeSlots # {}
  /\ handlers' = [handlers EXCEPT ![FreeSlot] = Replied(Handler(op, user, ""), code)]
  /\ UNCHANGED <<db, objectStored, queues, requests, throws>>

\* the handler starts and suspends at its first await
Accept(op, user, pc) ==
  /\ FreeSlots # {}
  /\ handlers' = [handlers EXCEPT ![FreeSlot] = Handler(op, user, pc)]
  /\ requests < MaxRequests \/ user # "owner"
  /\ requests' = IF user = "owner" THEN requests + 1 ELSE requests
  /\ UNCHANGED <<db, objectStored, queues, throws>>

\* the handler of slot s sends its reply
Send(s, code) == handlers' = [handlers EXCEPT ![s] = Replied(handlers[s], code)]

\* the response has been written and the request is over
Respond(s) ==
  /\ s \in Slots
  /\ handlers[s].pc = "replied"
  /\ handlers' = [handlers EXCEPT ![s] = Idle]
  /\ UNCHANGED <<db, objectStored, queues, requests, throws>>
  /\ UNCHANGED client

\* a lookup that does not compare the user
getRecordingOfAnyUser(rec, user) ==
  rec.status # "absent"

\* getRecordingByUser: findFirst where { id, userId }
getRecordingByUser(rec, user) ==
  rec.status # "absent" /\ user = "owner"

\* POST /recordings
CreateRecordingRequest(user, titleLen, mimeType) ==
  /\ IF user = "none" THEN Reject("create", user, 401)
     ELSE IF ~createRecordingSchema(titleLen, mimeType) THEN Reject("create", user, 400)
     ELSE IF ~isAllowedMimeType(mimeType) THEN Reject("create", user, 400)
     ELSE /\ user = "owner"
          /\ recording = NoRecording
          /\ \A s \in Slots : handlers[s].op # "create"
          /\ Accept("create", user, "createRecording")
  /\ UNCHANGED client

CreateRecording(s) ==
  /\ At(s, "create", "createRecording")
  /\ recording' = [status |-> "pending", objectKey |-> FALSE]
  /\ handlers' = [handlers EXCEPT ![s].pc = "setRecordingObjectKey",
                                  ![s].mutated = TRUE]
  /\ UNCHANGED <<objectStored, jobs, transcripts, debriefs, queues, requests, throws>>
  /\ UNCHANGED client

SetRecordingObjectKey(s) ==
  /\ At(s, "create", "setRecordingObjectKey")
  /\ recording' = [recording EXCEPT !.objectKey = TRUE]
  /\ Send(s, 201)
  /\ UNCHANGED <<objectStored, jobs, transcripts, debriefs, queues, requests, throws>>
  /\ UNCHANGED client

\* the client PUTs the bytes to the presigned URL
ClientUpload ==
  /\ recording.objectKey
  /\ ~objectStored
  /\ objectStored' = TRUE
  /\ UNCHANGED <<db, queues, handlers, requests, throws>>
  /\ UNCHANGED client

\* POST /recordings/:id/complete-upload
CompleteUploadRequest(user, fileSize) ==
  /\ IF user = "none" THEN Reject("completeUpload", user, 401)
     ELSE IF ~completeUploadBodySchema(fileSize) THEN Reject("completeUpload", user, 400)
     ELSE Accept("completeUpload", user, "getRecordingByUser")
  /\ UNCHANGED client

CompleteUploadGet(s) ==
  /\ At(s, "completeUpload", "getRecordingByUser")
  /\ IF ~getRecordingByUser(recording, handlers[s].user) THEN Send(s, 404)
     ELSE IF recording.status # "pending" THEN Send(s, 400)
     ELSE IF ~recording.objectKey THEN Send(s, 400)
     ELSE handlers' = [handlers EXCEPT ![s].pc = "objectExists"]
  /\ UNCHANGED <<db, objectStored, queues, requests, throws>>
  /\ UNCHANGED client

\* mutation: the Recording is marked uploaded before objectExists is consulted
CompleteUploadMarksBeforeExists(s) ==
  /\ At(s, "completeUpload", "objectExists")
  /\ recording' = completeUpload(recording)
  /\ IF ~objectStored THEN Send(s, 400)
     ELSE handlers' = [handlers EXCEPT ![s].pc = "completeUpload"]
  /\ UNCHANGED <<objectStored, jobs, transcripts, debriefs, queues, requests, throws>>
  /\ UNCHANGED client

CompleteUploadExists(s) ==
  /\ At(s, "completeUpload", "objectExists")
  /\ IF ~objectStored THEN Send(s, 400)
     ELSE handlers' = [handlers EXCEPT ![s].pc = "completeUpload"]
  /\ UNCHANGED <<db, objectStored, queues, requests, throws>>
  /\ UNCHANGED client

CompleteUploadMark(s) ==
  /\ At(s, "completeUpload", "completeUpload")
  /\ recording' = completeUpload(recording)
  /\ handlers' = [handlers EXCEPT ![s].pc = "createJob", ![s].mutated = TRUE]
  /\ UNCHANGED <<objectStored, jobs, transcripts, debriefs, queues, requests, throws>>
  /\ UNCHANGED client

\* mutation: the handler goes on to enqueue without having created the Job row
CompleteUploadSkipsCreateJob(s) ==
  /\ At(s, "completeUpload", "createJob")
  /\ handlers' = [handlers EXCEPT ![s].pc = "enqueue", ![s].jobId = Len(jobs) + 1]
  /\ UNCHANGED <<db, objectStored, queues, requests, throws>>
  /\ UNCHANGED client

CompleteUploadCreateJob(s) ==
  /\ At(s, "completeUpload", "createJob")
  /\ jobs' = createJob(jobs, "TRANSCRIBE")
  /\ handlers' = [handlers EXCEPT ![s].pc = "enqueue", ![s].jobId = Len(jobs')]
  /\ UNCHANGED <<recording, objectStored, transcripts, debriefs, queues, requests, throws>>
  /\ UNCHANGED client

CompleteUploadEnqueue(s) ==
  /\ At(s, "completeUpload", "enqueue")
  /\ transcriptionQueue' = enqueueTranscriptionJob(transcriptionQueue, handlers[s].jobId)
  /\ handlers' = [handlers EXCEPT ![s].pc = "updateRecordingStatus",
                                  ![s].enqueued = TRUE]
  /\ UNCHANGED <<db, objectStored, debriefQueue, requests, throws>>
  /\ UNCHANGED client

CompleteUploadProcessing(s) ==
  /\ At(s, "completeUpload", "updateRecordingStatus")
  /\ recording' = updateRecordingStatus(recording, "processing")
  /\ handlers' = [handlers EXCEPT
        ![s] = Replied([handlers[s] EXCEPT !.processing = TRUE], 200)]
  /\ UNCHANGED <<objectStored, jobs, transcripts, debriefs, queues, requests, throws>>
  /\ UNCHANGED client

\* POST /recordings/:id/retry-debrief
RetryDebriefRequest(user) ==
  /\ IF user = "none" THEN Reject("retryDebrief", user, 401)
     ELSE Accept("retryDebrief", user, "getRecordingByUser")
  /\ UNCHANGED client

RetryDebriefGet(s) ==
  /\ At(s, "retryDebrief", "getRecordingByUser")
  /\ IF ~getRecordingByUser(recording, handlers[s].user) THEN Send(s, 404)
     ELSE IF relationOf(transcripts, RecordingId) = 0 THEN Send(s, 400)
     ELSE handlers' = [handlers EXCEPT ![s].pc = "findUnique"]
  /\ UNCHANGED <<db, objectStored, queues, requests, throws>>
  /\ UNCHANGED client

\* retryDebriefJob: findUnique with the transcript; null when either is missing
RetryDebriefFind(s) ==
  /\ At(s, "retryDebrief", "findUnique")
  /\ IF recording.status = "absent" \/ relationOf(transcripts, RecordingId) = 0
     THEN Send(s, 400)
     ELSE /\ handlers' = [handlers EXCEPT
                            ![s].pc = "flip",
                            ![s].text = relationOf(transcripts, RecordingId)]
         
  /\ UNCHANGED <<db, objectStored, queues, requests, throws>>
  /\ UNCHANGED client

\* mutation: retryDebriefJob leaves the Recording's status as it found it
RetryDebriefKeepsStatus(s) ==
  /\ At(s, "retryDebrief", "flip")
  /\ handlers' = [handlers EXCEPT ![s].pc = "createJob"]
  /\ UNCHANGED <<db, objectStored, queues, requests, throws>>
  /\ UNCHANGED client

\* retryDebriefJob: "Flip status back to processing while we retry"
RetryDebriefFlip(s) ==
  /\ At(s, "retryDebrief", "flip")
  /\ recording' = updateRecordingStatus(recording, "processing")
  /\ handlers' = [handlers EXCEPT ![s].pc = "createJob", ![s].mutated = TRUE,
                                  ![s].processing = TRUE]
  /\ UNCHANGED <<objectStored, jobs, transcripts, debriefs, queues, requests, throws>>
  /\ UNCHANGED client

RetryDebriefCreateJob(s) ==
  /\ At(s, "retryDebrief", "createJob")
  /\ jobs' = jobCreate(jobs, "DEBRIEF")
  /\ handlers' = [handlers EXCEPT ![s].pc = "enqueue", ![s].jobId = Len(jobs')]
  /\ UNCHANGED <<recording, objectStored, transcripts, debriefs, queues, requests, throws>>
  /\ UNCHANGED client

RetryDebriefEnqueue(s) ==
  /\ At(s, "retryDebrief", "enqueue")
  /\ debriefQueue' = enqueueDebriefJob(debriefQueue, handlers[s].jobId, handlers[s].text)
  /\ handlers' = [handlers EXCEPT
        ![s] = Replied([handlers[s] EXCEPT !.enqueued = TRUE], 200)]
  /\ UNCHANGED <<db, objectStored, transcriptionQueue, requests, throws>>
  /\ UNCHANGED client

\* POST /recordings/:id/retry-transcription
RetryTranscriptionRequest(user) ==
  /\ IF user = "none" THEN Reject("retryTranscription", user, 401)
     ELSE Accept("retryTranscription", user, "getRecordingByUser")
  /\ UNCHANGED client

RetryTranscriptionGet(s) ==
  /\ At(s, "retryTranscription", "getRecordingByUser")
  /\ IF ~getRecordingByUser(recording, handlers[s].user) THEN Send(s, 404)
     ELSE IF ~recording.objectKey THEN Send(s, 400)
     ELSE handlers' = [handlers EXCEPT ![s].pc = "findUnique"]
  /\ UNCHANGED <<db, objectStored, queues, requests, throws>>
  /\ UNCHANGED client

\* retryTranscriptionJob: findUnique; null when there is no object key
RetryTranscriptionFind(s) ==
  /\ At(s, "retryTranscription", "findUnique")
  /\ IF ~recording.objectKey THEN Send(s, 400)
     ELSE handlers' = [handlers EXCEPT ![s].pc = "flip"]
  /\ UNCHANGED <<db, objectStored, queues, requests, throws>>
  /\ UNCHANGED client

RetryTranscriptionFlip(s) ==
  /\ At(s, "retryTranscription", "flip")
  /\ recording' = updateRecordingStatus(recording, "processing")
  /\ handlers' = [handlers EXCEPT ![s].pc = "createJob", ![s].mutated = TRUE,
                                  ![s].processing = TRUE]
  /\ UNCHANGED <<objectStored, jobs, transcripts, debriefs, queues, requests, throws>>
  /\ UNCHANGED client

\* mutation: the retry re-arms the row of the earlier attempt instead of adding one
RetryTranscriptionReusesJob(s) ==
  /\ At(s, "retryTranscription", "createJob")
  /\ jobs' = IF JobsOfType("TRANSCRIBE") = {} THEN jobCreate(jobs, "TRANSCRIBE")
             ELSE [jobs EXCEPT ![LatestJob("TRANSCRIBE")].status = "pending"]
  /\ handlers' = [handlers EXCEPT
        ![s].pc = "enqueue",
        ![s].jobId = IF JobsOfType("TRANSCRIBE") = {} THEN Len(jobs')
                     ELSE LatestJob("TRANSCRIBE")]
  /\ UNCHANGED <<recording, objectStored, transcripts, debriefs, queues, requests, throws>>
  /\ UNCHANGED client

RetryTranscriptionCreateJob(s) ==
  /\ At(s, "retryTranscription", "createJob")
  /\ jobs' = jobCreate(jobs, "TRANSCRIBE")
  /\ handlers' = [handlers EXCEPT ![s].pc = "enqueue", ![s].jobId = Len(jobs')]
  /\ UNCHANGED <<recording, objectStored, transcripts, debriefs, queues, requests, throws>>
  /\ UNCHANGED client

RetryTranscriptionEnqueue(s) ==
  /\ At(s, "retryTranscription", "enqueue")
  /\ transcriptionQueue' = enqueueTranscriptionJob(transcriptionQueue, handlers[s].jobId)
  /\ handlers' = [handlers EXCEPT
        ![s] = Replied([handlers[s] EXCEPT !.enqueued = TRUE], 200)]
  /\ UNCHANGED <<db, objectStored, debriefQueue, requests, throws>>
  /\ UNCHANGED client

\* GET /recordings/:id, GET /recordings/:id/jobs, GET /recordings/:id/download-url
ReadOps == {"getRecording", "listJobs", "downloadUrl"}

ReadRequest(op, user) ==
  /\ IF user = "none" THEN Reject(op, user, 401)
     ELSE Accept(op, user, "getRecordingByUser")
  /\ UNCHANGED client

\* the lookup of the three routes and what follows it up to the next await that
\* reads a row (getPresignedDownloadUrl reads none)
ReadGet(s) ==
  /\ s \in Slots
  /\ handlers[s].op \in ReadOps
  /\ handlers[s].pc = "getRecordingByUser"
  /\ IF ~getRecordingByUser(recording, handlers[s].user) THEN Send(s, 404)
     ELSE IF handlers[s].op = "downloadUrl" /\ ~recording.objectKey THEN Send(s, 400)
     ELSE IF handlers[s].op = "listJobs"
       THEN handlers' = [handlers EXCEPT ![s].pc = "getJobsByRecording"]
     ELSE Send(s, 200)
  /\ UNCHANGED <<db, objectStored, queues, requests, throws>>
  /\ UNCHANGED client

\* getJobsByRecording(id) and the reply with the rows
ReadJobs(s) ==
  /\ At(s, "listJobs", "getJobsByRecording")
  /\ Send(s, 200)
  /\ UNCHANGED <<db, objectStored, queues, requests, throws>>
  /\ UNCHANGED client

\* an awaited call of a handler's try block throws: the catch answers 500
HandlerThrow(s) ==
  /\ s \in Slots
  /\ handlers[s].op # "idle"
  /\ handlers[s].pc # "replied"
  /\ Send(s, 500)
  /\ throws > 0
  /\ throws' = throws - 1
  /\ UNCHANGED <<db, objectStored, queues, requests>>
  /\ UNCHANGED client

\* the text a caller of saveTranscript passes: no provider output
SavedText == 0 - 1

\* saveTranscript: one transaction, the upsert and the conditional status update
saveTranscript(text) ==
  /\ requests < MaxRequests
  /\ requests' = requests + 1
  /\ recording.status # "absent"
  /\ transcripts' = upsert(transcripts, RecordingId, text)
  /\ recording' = IF recording.status = "processing"
                  THEN updateRecordingStatus(recording, "complete")
                  ELSE recording
  /\ UNCHANGED <<objectStored, jobs, debriefs, queues, handlers, throws>>
  /\ UNCHANGED client

\* ----------------------------------------------------------------- workers
\* the positions of a processor inside its try block
TryPcs == {"upsert", "complete", "createDebrief", "enqueueDebrief", "recordingComplete"}

\* error.message of the thrown error (its length; never empty here)
ErrorMessage == 1

\* ---- transcription worker processor
\* the unit is dispatched; Step 1: updateJobStatus(jobId, 'running')
TranscriptionRunning(i) ==
  /\ CanDispatch(transcriptionQueue, i)
  /\ jobs' = updateJobStatus(jobs, transcriptionQueue[i].jobId, "running", 0)
  /\ transcriptionQueue' = [transcriptionQueue EXCEPT ![i].pc = "upsert",
                                                      ![i].attemptsMade = @ + 1]
  /\ UNCHANGED <<recording, objectStored, transcripts, debriefs, debriefQueue,
                 handlers, requests, throws>>
  /\ UNCHANGED client

\* the unit is dispatched and Step 1 throws
TranscriptionRunningThrow(i) ==
  /\ CanDispatch(transcriptionQueue, i)
  /\ transcriptionQueue' = [transcriptionQueue EXCEPT ![i].pc = "catchJob",
                                                      ![i].attemptsMade = @ + 1]
  /\ throws > 0
  /\ throws' = throws - 1
  /\ UNCHANGED <<db, objectStored, debriefQueue, handlers, requests>>
  /\ UNCHANGED client

\* transcribe(...): every run of the provider returns a different text, named by
\* the unit of work and the attempt that asked for it
\* (TRANSCRIPTION_PROVIDER may be 'mock', which answers without reading the
\* object, so a run can succeed whether or not the object is in storage)
transcribe(i, attempt) == MaxAttempts * (i - 1) + attempt

\* mutation: the processor goes on without having written the Transcript
TranscriptionSkipsUpsert(i) ==
  /\ i \in Tickets(transcriptionQueue)
  /\ transcriptionQueue[i].pc = "upsert"
  /\ transcriptionQueue' = [transcriptionQueue EXCEPT
        ![i].pc = "complete",
        ![i].text = transcribe(i, transcriptionQueue[i].attemptsMade)]
  /\ UNCHANGED <<db, objectStored, debriefQueue, handlers, requests, throws>>
  /\ UNCHANGED client

\* Steps 2-4: download URL, transcribe, db.transcript.upsert
TranscriptionUpsert(i) ==
  /\ i \in Tickets(transcriptionQueue)
  /\ transcriptionQueue[i].pc = "upsert"
  /\ transcripts' = upsert(transcripts, RecordingId,
                           transcribe(i, transcriptionQueue[i].attemptsMade))
  /\ transcriptionQueue' = [transcriptionQueue EXCEPT
        ![i].pc = "complete",
        ![i].text = transcribe(i, transcriptionQueue[i].attemptsMade)]
  /\ UNCHANGED <<recording, objectStored, jobs, debriefs, debriefQueue,
                 handlers, requests, throws>>
  /\ UNCHANGED client

\* Step 5: updateJobStatus(jobId, 'complete') (after the duration update, which
\* writes no modelled field)
TranscriptionComplete(i) ==
  /\ i \in Tickets(transcriptionQueue)
  /\ transcriptionQueue[i].pc = "complete"
  /\ jobs' = updateJobStatus(jobs, transcriptionQueue[i].jobId, "complete", 0)
  /\ transcriptionQueue' = [transcriptionQueue EXCEPT ![i].pc = "createDebrief"]
  /\ UNCHANGED <<recording, objectStored, transcripts, debriefs, debriefQueue,
                 handlers, requests, throws>>
  /\ UNCHANGED client

\* Step 6: findUnique, then db.job.create of the DEBRIEF row
TranscriptionCreateDebrief(i) ==
  /\ i \in Tickets(transcriptionQueue)
  /\ transcriptionQueue[i].pc = "createDebrief"
  /\ IF recording.status = "absent"
     THEN /\ transcriptionQueue' = [transcriptionQueue EXCEPT
                                      ![i] = Finished(@, "completed")]
          /\ UNCHANGED jobs
     ELSE /\ jobs' = jobCreate(jobs, "DEBRIEF")
          /\ transcriptionQueue' = [transcriptionQueue EXCEPT
                                      ![i].pc = "enqueueDebrief",
                                      ![i].debriefJobId = Len(jobs')]
  /\ UNCHANGED <<recording, objectStored, transcripts, debriefs, debriefQueue,
                 handlers, requests, throws>>
  /\ UNCHANGED client

\* Step 6: debriefQueue.add with the text just transcribed; the processor returns
TranscriptionEnqueueDebrief(i) ==
  /\ i \in Tickets(transcriptionQueue)
  /\ transcriptionQueue[i].pc = "enqueueDebrief"
  /\ debriefQueue' = enqueueDebriefJob(debriefQueue, transcriptionQueue[i].debriefJobId,
                                       transcriptionQueue[i].text)
  /\ transcriptionQueue' = [transcriptionQueue EXCEPT ![i] = Finished(@, "completed")]
  /\ UNCHANGED <<db, objectStored, handlers, requests, throws>>
  /\ UNCHANGED client

\* an awaited call of the try block throws
TranscriptionThrow(i) ==
  /\ i \in Tickets(transcriptionQueue)
  /\ transcriptionQueue[i].pc \in TryPcs
  /\ transcriptionQueue' = [transcriptionQueue EXCEPT ![i].pc = "catchJob"]
  /\ throws > 0
  /\ throws' = throws - 1
  /\ UNCHANGED <<db, objectStored, debriefQueue, handlers, requests>>
  /\ UNCHANGED client

\* catch: updateJobStatus(jobId, 'failed', message)
TranscriptionCatchJob(i) ==
  /\ i \in Tickets(transcriptionQueue)
  /\ transcriptionQueue[i].pc = "catchJob"
  /\ jobs' = updateJobStatus(jobs, transcriptionQueue[i].jobId, "failed", ErrorMessage)
  /\ transcriptionQueue' = [transcriptionQueue EXCEPT ![i].pc = "catchRecording",
                                                      ![i].failedJob = TRUE]
  /\ UNCHANGED <<recording, objectStored, transcripts, debriefs, debriefQueue,
                 handlers, requests, throws>>
  /\ UNCHANGED client

\* mutation: the catch re-raises without writing the Recording
TranscriptionCatchRethrowsOnly(i) ==
  /\ i \in Tickets(transcriptionQueue)
  /\ transcriptionQueue[i].pc = "catchRecording"
  /\ transcriptionQueue' = [transcriptionQueue EXCEPT ![i] = Requeue(@)]
  /\ UNCHANGED <<db, objectStored, debriefQueue, handlers, requests, throws>>
  /\ UNCHANGED client

\* catch: db.recording.update status failed, then throw error to the queue
TranscriptionCatchRecording(i) ==
  /\ i \in Tickets(transcriptionQueue)
  /\ transcriptionQueue[i].pc = "catchRecording"
  /\ recording' = updateRecordingStatus(recording, "failed")
  /\ transcriptionQueue' = [transcriptionQueue EXCEPT ![i] = Requeue(@)]
  /\ UNCHANGED <<objectStored, jobs, transcripts, debriefs, debriefQueue,
                 handlers, requests, throws>>
  /\ UNCHANGED client

\* ---- debrief worker processor
\* the unit is dispatched; Step 1: updateJobStatus(jobId, 'running')
DebriefRunning(i) ==
  /\ CanDispatch(debriefQueue, i)
  /\ jobs' = updateJobStatus(jobs, debriefQueue[i].jobId, "running", 0)
  /\ debriefQueue' = [debriefQueue EXCEPT ![i].pc = "upsert",
                                          ![i].attemptsMade = @ + 1]
  /\ UNCHANGED <<recording, objectStored, transcripts, debriefs, transcriptionQueue,
                 handlers, requests, throws>>
  /\ UNCHANGED client

DebriefRunningThrow(i) ==
  /\ CanDispatch(debriefQueue, i)
  /\ debriefQueue' = [debriefQueue EXCEPT ![i].pc = "catchJob",
                                          ![i].attemptsMade = @ + 1]
  /\ throws > 0
  /\ throws' = throws - 1
  /\ UNCHANGED <<db, objectStored, transcriptionQueue, handlers, requests>>
  /\ UNCHANGED client

\* Steps 2-3: generateDebrief(transcriptText, ...), db.debrief.upsert; the row is
\* identified by the transcript text it was generated from
DebriefUpsert(i) ==
  /\ i \in Tickets(debriefQueue)
  /\ debriefQueue[i].pc = "upsert"
  /\ debriefs' = upsert(debriefs, RecordingId, debriefQueue[i].text)
  /\ debriefQueue' = [debriefQueue EXCEPT ![i].pc = "complete"]
  /\ UNCHANGED <<recording, objectStored, jobs, transcripts, transcriptionQueue,
                 handlers, requests, throws>>
  /\ UNCHANGED client

\* Step 4: updateJobStatus(jobId, 'complete')
DebriefComplete(i) ==
  /\ i \in Tickets(debriefQueue)
  /\ debriefQueue[i].pc = "complete"
  /\ jobs' = updateJobStatus(jobs, debriefQueue[i].jobId, "complete", 0)
  /\ debriefQueue' = [debriefQueue EXCEPT ![i].pc = "recordingComplete"]
  /\ UNCHANGED <<recording, objectStored, transcripts, debriefs, transcriptionQueue,
                 handlers, requests, throws>>
  /\ UNCHANGED client

\* Step 5: db.recording.update status complete; the processor returns
DebriefRecordingComplete(i) ==
  /\ i \in Tickets(debriefQueue)
  /\ debriefQueue[i].pc = "recordingComplete"
  /\ recording' = updateRecordingStatus(recording, "complete")
  /\ debriefQueue' = [debriefQueue EXCEPT ![i] = Finished(@, "completed")]
  /\ UNCHANGED <<objectStored, jobs, transcripts, debriefs, transcriptionQueue,
                 handlers, requests, throws>>
  /\ UNCHANGED client

DebriefThrow(i) ==
  /\ i \in Tickets(debriefQueue)
  /\ debriefQueue[i].pc \in TryPcs
  /\ debriefQueue' = [debriefQueue EXCEPT ![i].pc = "catchJob"]
  /\ throws > 0
  /\ throws' = throws - 1
  /\ UNCHANGED <<db, objectStored, transcriptionQueue, handlers, requests>>
  /\ UNCHANGED client

\* mutation: the catch also clears the artifacts of the recording
DebriefCatchClearsArtifacts(i) ==
  /\ i \in Tickets(debriefQueue)
  /\ debriefQueue[i].pc = "catchJob"
  /\ jobs' = updateJobStatus(jobs, debriefQueue[i].jobId, "failed", ErrorMessage)
  /\ transcripts' = <<>>
  /\ debriefs' = <<>>
  /\ debriefQueue' = [debriefQueue EXCEPT ![i].pc = "catchRecording",
                                          ![i].failedJob = TRUE]
  /\ UNCHANGED <<recording, objectStored, transcriptionQueue, handlers, requests, throws>>
  /\ UNCHANGED client

\* catch: updateJobStatus(jobId, 'failed', message)
DebriefCatchJob(i) ==
  /\ i \in Tickets(debriefQueue)
  /\ debriefQueue[i].pc = "catchJob"
  /\ jobs' = updateJobStatus(jobs, debriefQueue[i].jobId, "failed", ErrorMessage)
  /\ debriefQueue' = [debriefQueue EXCEPT ![i].pc = "catchRecording",
                                          ![i].failedJob = TRUE]
  /\ UNCHANGED <<recording, objectStored, transcripts, debriefs, transcriptionQueue,
                 handlers, requests, throws>>
  /\ UNCHANGED client

\* catch: db.recording.update status failed, then throw error to the queue
DebriefCatchRecording(i) ==
  /\ i \in Tickets(debriefQueue)
  /\ debriefQueue[i].pc = "catchRecording"
  /\ recording' = updateRecordingStatus(recording, "failed")
  /\ debriefQueue' = [debriefQueue EXCEPT ![i] = Requeue(@)]
  /\ UNCHANGED <<objectStored, jobs, transcripts, debriefs, transcriptionQueue,
                 handlers, requests, throws>>
  /\ UNCHANGED client

\* --------------------------------------------- recording poller (web client)
\* useRecordingWithBackoffPolling as the detail page mounts it.  One step is
\* one browser task: a mount, a timer callback up to its await, the delivery
\* of a fetched result with the render and the effects that follow it, a
\* change of the route parameter with its render and effects.

MaxPolls == 6         \* polls fired without a change of the fingerprint in between

BaseDelayMs == 1500   \* backoffDelayMs: delay of attempt 0
CapDelayMs == 20000   \* backoffDelayMs: cap of the exponential part
JitterMs == 250       \* backoffDelayMs: the jitter is below this

Watched == {1, 2}                 \* recording ids the page is opened with
JitterInputs == {0, JitterMs - 1} \* values of Math.floor(Math.random() * 250)

\* the data of the detail query before its first result (undefined)
NoData == [status |-> "", transcript |-> "none", debrief |-> FALSE, objectKey |-> FALSE]

\* results of GET /recordings/:id?include=all: the fields the client reads
DataInputs ==
  [status : {"processing", "complete", "failed"},
   transcript : {"none", "mock", "real"},
   debrief : BOOLEAN,
   objectKey : BOOLEAN]

Unmounted == [recordingId |-> 0, data |-> NoData, fetching |-> FALSE, attempt |-> 0,
              timeout |-> 0, timerFor |-> 0, lastKey |-> <<>>, polled |-> 0,
              resetFrom |-> 0, cancelled |-> FALSE]

\* the detail page before it has anything to show
Blank == [hasFailedJob |-> FALSE, offers |-> {}]

\* the retry buttons the detail page renders for the recording it holds:
\* nothing while there is no recording, the failed panel when isFailed
RetryOffers(data, hasFailedJob) ==
  LET hasTranscript == data.transcript # "none"
      hasDebrief == data.debrief
      isMockTranscript == data.transcript = "mock"
      effectiveStatus == IF data.status # ""
                           THEN (IF hasFailedJob /\ ~hasDebrief THEN "failed" ELSE data.status)
                           ELSE "pending"
      isFailed == effectiveStatus = "failed" \/ hasFailedJob
  IN IF data = NoData \/ ~isFailed THEN {}
     ELSE (IF hasTranscript /\ ~hasDebrief THEN {"retryDebrief"} ELSE {})
          \cup (IF (isMockTranscript \/ ~hasTranscript) /\ data.objectKey
                  THEN {"retryTranscription"} ELSE {})

\* the render that follows a change of the recording or of the job list
Render(data, hasFailedJob) ==
  [hasFailedJob |-> hasFailedJob, offers |-> RetryOffers(data, hasFailedJob)]

Min(a, b) == IF a <= b THEN a ELSE b
Max(a, b) == IF a >= b THEN a ELSE b

\* a delay that does not grow with the attempt
backoffWithoutGrowth(attempt, random) == BaseDelayMs + random

\* random stands for Math.floor(Math.random() * 250)
backoffDelayMs(attempt, random) ==
  LET base == Min(BaseDelayMs * 2 ^ Max(0, attempt), CapDelayMs)
  IN base + random

isTerminalRecordingState(data) ==
  IF data = NoData THEN FALSE
  ELSE IF data.status = "failed" THEN TRUE
  ELSE data.status = "complete" /\ data.debrief

\* the fingerprint `${status}-${transcript ? 't' : 'f'}-${debrief ? 't' : 'f'}`
fingerprint(data) == <<data.status, data.transcript # "none", data.debrief>>

\* the effect on [recordingId] without the clearTimeout
ResetKeepsTimer(p) ==
  [p EXCEPT !.attempt = 0, !.lastKey = <<>>, !.polled = 0]

\* the effect on [recordingId]
ResetEffect(p) ==
  [p EXCEPT !.attempt = 0, !.timeout = 0, !.lastKey = <<>>, !.polled = 0]

\* the cleanup of the effect on [query.data, query.refetch]
Cleanup(p) == [p EXCEPT !.timeout = 0]

\* polled, resetFrom and cancelled are not in the code: they record the delay
\* of the last poll of the current run of equal fingerprints, the attempt
\* count the last reset found, and whether the last change of the recording
\* id found a timer pending

\* the effect on [query.data, query.refetch] without the reset of the attempt
ScheduleKeepsAttempt(p, random) ==
  LET key == fingerprint(p.data)
      progress == key # <<>> /\ key # p.lastKey
      q == IF progress
             THEN [p EXCEPT !.lastKey = key, !.polled = 0, !.resetFrom = p.attempt]
             ELSE p
  IN IF isTerminalRecordingState(p.data)
       THEN [q EXCEPT !.timeout = 0]
       ELSE [q EXCEPT !.timeout = backoffDelayMs(q.attempt, random),
                      !.timerFor = q.recordingId]

\* the effect on [query.data, query.refetch]
ScheduleEffect(p, random) ==
  LET key == fingerprint(p.data)
      progress == key # <<>> /\ key # p.lastKey
      q == IF progress
             THEN [p EXCEPT !.attempt = 0, !.lastKey = key, !.polled = 0,
                            !.resetFrom = p.attempt]
             ELSE p
  IN IF isTerminalRecordingState(p.data)
       THEN [q EXCEPT !.timeout = 0]
       ELSE [q EXCEPT !.timeout = backoffDelayMs(q.attempt, random),
                      !.timerFor = q.recordingId]

\* React runs an effect again only when one of its dependencies is another
\* value (Object.is); query.refetch is the same function for the life of the
\* observer, and a result deep-equal to the previous one of the same query is
\* delivered as the previous object (structural sharing of the query cache)
DataChanged(before, after) == before # after

\* the page opens on a recording: first render, then both effects
Mount(id, random) ==
  /\ poller = Unmounted
  /\ poller' = ScheduleEffect(ResetEffect(
                 [Unmounted EXCEPT !.recordingId = id, !.fetching = TRUE]), random)
  /\ page' = Render(poller'.data, FALSE)
  /\ UNCHANGED <<server, upload>>

\* the timer callback: attemptRef.current += 1, then query.refetch() is awaited
TimerFires ==
  /\ poller.timeout # 0
  /\ poller.attempt < MaxPolls
  /\ poller' = [poller EXCEPT !.attempt = @ + 1, !.timeout = 0, !.fetching = TRUE,
                              !.polled = poller.timeout]
  /\ UNCHANGED <<server, upload, page>>

\* the fetch in flight delivers data; the hook renders and its effect runs
\* again when query.data is another value
FetchResolves(data, random) ==
  /\ poller.fetching
  /\ poller' =
       IF DataChanged(poller.data, data)
         THEN ScheduleEffect(Cleanup([poller EXCEPT !.fetching = FALSE, !.data = data]),
                             random)
         ELSE [poller EXCEPT !.fetching = FALSE]
  /\ page' = Render(poller'.data, page.hasFailedJob)
  /\ UNCHANGED <<server, upload>>

\* a retry mutation succeeded: invalidateQueries refetches the detail query
Invalidate ==
  /\ poller.recordingId # 0
  /\ poller.data # NoData
  /\ ~poller.fetching
  /\ poller' = [poller EXCEPT !.fetching = TRUE]
  /\ UNCHANGED <<server, upload, page>>

\* the route parameter changes: the query observes another key, whose data is
\* its cached result (cached) or undefined; cleanup of the data effect if its
\* dependency changed, then the effects in the order of their declaration.
\* Results of two queries are never the same object.
SwitchRecording(id, cached, random) ==
  /\ poller.recordingId # 0
  /\ id # poller.recordingId
  /\ LET changed == ~(poller.data = NoData /\ cached = NoData)
         p == [poller EXCEPT !.recordingId = id, !.data = cached, !.fetching = TRUE,
                             !.cancelled = poller.timeout # 0]
     IN poller' = IF changed
                    THEN ScheduleEffect(ResetEffect(Cleanup(p)), random)
                    ELSE ResetEffect(p)
  /\ page' = Render(poller'.data, FALSE)
  /\ UNCHANGED <<server, upload>>

\* the job list query delivers a list with or without a failed Job
JobsObserved(hasFailedJob) ==
  /\ poller.recordingId # 0
  /\ hasFailedJob # page.hasFailedJob
  /\ page' = Render(poller.data, hasFailedJob)
  /\ UNCHANGED <<server, poller, upload>>

PollStep ==
  \/ \E id \in Watched, random \in JitterInputs : Mount(id, random)
  \/ TimerFires
  \/ \E data \in DataInputs, random \in JitterInputs : FetchResolves(data, random)
  \/ Invalidate
  \/ \E id \in Watched, cached \in DataInputs \cup {NoData}, random \in JitterInputs :
       SwitchRecording(id, cached, random)
  \/ \E hasFailedJob \in BOOLEAN : JobsObserved(hasFailedJob)

\* ------------------------------------------------ upload transport (web client)
\* uploadToPresignedUrl and uploadOnce.  One step is one browser task: the
\* call or the end of a backoff wait up to the next await, an XHR event with
\* the code that follows the await, the abort event of the caller's signal.

MaxRetriesInput == 3  \* largest options.maxRetries of a call (the default value)

UploadBaseMs == 500   \* getBackoffMs: delay before the first retry
UploadJitterMs == 200 \* getBackoffMs: the jitter is below this

MaxRetriesInputs == -1 .. MaxRetriesInput
UploadJitterInputs == {0, UploadJitterMs - 1}   \* Math.floor(Math.random() * 200)
StatusInputs == {200, 299, 300, 403, 408, 429, 499, 500, 503, 599}

\* how a transfer in flight ends: onload with a status, onerror, ontimeout
TransferEvents ==
  {[event |-> "load", status |-> s] : s \in StatusInputs}
    \cup {[event |-> "error", status |-> 0], [event |-> "timeout", status |-> 0]}

isRetriableStatus(status) == status = 408 \/ status = 429 \/ (status >= 500 /\ status <= 599)

\* a delay that does not grow with the attempt
getBackoffWithoutGrowth(attemptIndex, random) == UploadBaseMs + random

\* random stands for Math.floor(Math.random() * 200)
getBackoffMs(attemptIndex, random) ==
  LET base == UploadBaseMs * 2 ^ Max(0, attemptIndex - 1)
  IN base + random

\* the UploadResult a finished uploadOnce resolves with (status 0: undefined)
Finish(ok, status, reason, retriable) ==
  [ok |-> ok, status |-> status, reason |-> reason, retriable |-> retriable, attempts |-> 1]

NoResult == Finish(FALSE, 0, "", FALSE)

\* the handlers of uploadOnce
onEvent(e) ==
  IF e.event = "load"
    THEN IF e.status >= 200 /\ e.status < 300
           THEN Finish(TRUE, e.status, "", FALSE)
           ELSE Finish(FALSE, e.status, "http_error", isRetriableStatus(e.status))
    ELSE IF e.event = "error" THEN Finish(FALSE, 0, "network", TRUE)
    ELSE IF e.event = "timeout" THEN Finish(FALSE, 0, "timeout", TRUE)
    ELSE IF e.event = "abort" THEN Finish(FALSE, 0, "aborted", FALSE)
    ELSE Finish(FALSE, 0, "unknown", TRUE)

\* transfers, calls, last, only503, previous and abortAt are not in the code:
\* the xhr.send calls and uploadOnce calls made, the result of the last
\* uploadOnce, whether every uploadOnce so far ended with a 503 answer, the
\* backoff wait before the current one, and where the call was when the signal
\* fired
NotCalled ==
  [pc |-> "idle", maxRetries |-> 0, attempt |-> 0, aborted |-> FALSE,
   listening |-> FALSE, delay |-> 0, result |-> NoResult,
   transfers |-> 0, calls |-> 0, last |-> NoResult, only503 |-> TRUE, previous |-> 0,
   abortAt |-> ""]

\* the code after `await uploadOnce(...)` that returns the result of uploadOnce as it is
ConcludeKeepsAttempts(u, result, random) ==
  LET v == [u EXCEPT !.last = result, !.only503 = @ /\ result.status = 503]
  IN IF result.ok \/ ~result.retriable \/ u.attempt > u.maxRetries
       THEN [v EXCEPT !.pc = "returned", !.result = result]
       ELSE [v EXCEPT !.pc = "sleep", !.previous = u.delay,
                      !.delay = getBackoffMs(u.attempt, random)]

\* the code after `await uploadOnce(...)`: return, or sleep(getBackoffMs(attempt))
Conclude(u, result, random) ==
  LET v == [u EXCEPT !.last = result, !.only503 = @ /\ result.status = 503]
  IN IF result.ok
       THEN [v EXCEPT !.pc = "returned", !.result = [result EXCEPT !.attempts = u.attempt]]
     ELSE IF ~result.retriable \/ u.attempt > u.maxRetries
       THEN [v EXCEPT !.pc = "returned", !.result = [result EXCEPT !.attempts = u.attempt]]
     ELSE [v EXCEPT !.pc = "sleep", !.previous = u.delay,
                    !.delay = getBackoffMs(u.attempt, random)]

\* one pass of the while loop up to its await: attempt += 1 and the executor of
\* uploadOnce (the signal test, addEventListener, open, send, and in the
\* finally removeEventListener); sendThrows says whether xhr.send throws
Iterate(u, sendThrows, random) ==
  IF ~(u.attempt <= u.maxRetries)
    THEN [u EXCEPT !.pc = "returned",
                   !.result = IF u.last = NoResult
                                THEN [Finish(FALSE, 0, "unknown", FALSE)
                                        EXCEPT !.attempts = u.maxRetries + 1]
                                ELSE [u.last EXCEPT !.attempts = u.attempt]]
  ELSE LET v == [u EXCEPT !.attempt = @ + 1, !.calls = @ + 1]
       IN IF v.aborted
            THEN Conclude(v, onEvent([event |-> "abort", status |-> 0]), random)
          ELSE IF sendThrows
            THEN Conclude([v EXCEPT !.transfers = @ + 1, !.listening = FALSE],
                          onEvent([event |-> "throw", status |-> 0]), random)
          ELSE [v EXCEPT !.pc = "transfer", !.transfers = @ + 1, !.listening = FALSE]

\* uploadToPresignedUrl(blob, url, {maxRetries, signal})
Call(maxRetries, sendThrows, random) ==
  /\ upload.pc = "idle"
  /\ upload' = Iterate([upload EXCEPT !.maxRetries = maxRetries], sendThrows, random)
  /\ UNCHANGED <<server, poller, page>>

\* onload, onerror or ontimeout of the transfer in flight
TransferEnds(e, random) ==
  /\ upload.pc = "transfer"
  /\ upload' = Conclude(upload, onEvent(e), random)
  /\ UNCHANGED <<server, poller, page>>

\* the backoff wait is over
SleepEnds(sendThrows, random) ==
  /\ upload.pc = "sleep"
  /\ upload' = Iterate(upload, sendThrows, random)
  /\ UNCHANGED <<server, poller, page>>

\* the caller aborts: signal.aborted becomes true and the listeners still
\* registered run (onAbort: xhr.abort(), then onabort)
Abort ==
  /\ ~upload.aborted
  /\ upload' =
       LET u == [upload EXCEPT !.aborted = TRUE, !.abortAt = upload.pc]
       IN IF upload.pc = "transfer" /\ upload.listening
            THEN Conclude(u, onEvent([event |-> "abort", status |-> 0]), 0)
            ELSE u
  /\ UNCHANGED <<server, poller, page>>

TransportStep ==
  \/ \E maxRetries \in MaxRetriesInputs, sendThrows \in BOOLEAN, random \in UploadJitterInputs :
       Call(maxRetries, sendThrows, random)
  \/ \E e \in TransferEvents, random \in UploadJitterInputs : TransferEnds(e, random)
  \/ \E sendThrows \in BOOLEAN, random \in UploadJitterInputs : SleepEnds(sendThrows, random)
  \/ Abort

\* ------------------------------------------------------- job ledger alone
\* The calls the two processors make on one Job row, with the message of the
\* thrown error as an input: updateJobStatus(jobId, 'running') when a unit is
\* dispatched (again on every re-attempt), then 'complete', or 'failed' with
\* error.message from the catch block.

MaxLedgerJobs == 2    \* Job rows of a ledger run
ErrorBound == 2       \* a length limit for stored error messages, in characters

\* lengths of error.message: short, at the limit, one over it
ErrorLengths == {1, ErrorBound, ErrorBound + 1}

LedgerCreate(type) ==
  /\ Len(jobs) < MaxLedgerJobs
  /\ jobs' = jobCreate(jobs, type)
  /\ UNCHANGED <<recording, objectStored, transcripts, debriefs, queues, handlers,
                 requests, throws, client>>

LedgerUpdate(jobId, status, message) ==
  /\ jobId \in 1 .. Len(jobs)
  /\ \/ status = "running" /\ message = 0 /\ jobs[jobId].status \in {"pending", "failed"}
     \/ status = "complete" /\ message = 0 /\ jobs[jobId].status = "running"
     \/ status = "failed" /\ message # 0 /\ jobs[jobId].status = "running"
  /\ jobs' = updateJobStatus(jobs, jobId, status, message)
  /\ UNCHANGED <<recording, objectStored, transcripts, debriefs, queues, handlers,
                 requests, throws, client>>

LedgerStep ==
  \/ \E type \in {"TRANSCRIBE", "DEBRIEF"} : LedgerCreate(type)
  \/ \E jobId \in 1 .. MaxLedgerJobs, status \in {"running", "complete", "failed"},
         message \in ErrorLengths \cup {0} : LedgerUpdate(jobId, status, message)

\* ----------------------------------------------------------- specification
Init ==
  /\ recording = NoRecording
  /\ objectStored = FALSE
  /\ jobs = <<>>
  /\ transcripts = <<>>
  /\ debriefs = <<>>
  /\ transcriptionQueue = <<>>
  /\ debriefQueue = <<>>
  /\ handlers = [s \in 1 .. MaxInFlight |-> Idle]
  /\ requests = 0
  /\ throws = MaxThrows
  /\ poller = Unmounted
  /\ upload = NotCalled
  /\ page = Blank

MaxTickets == 2 * MaxRequests

\* create and complete-upload requests of the owner that pass validation
UploadRequest ==
  \/ CreateRecordingRequest("owner", 1, "audio/webm")
  \/ CompleteUploadRequest("owner", 2097152)

\* every request of the owner that passes validation
Request ==
  \/ UploadRequest
  \/ RetryDebriefRequest("owner")
  \/ RetryTranscriptionRequest("owner")
  \/ saveTranscript(SavedText)

\* requests that fail validation, carry no identity or come from another user
BoundaryRequest ==
  \/ \E u \in Users, t \in TitleInputs, m \in MimeInputs :
       /\ u # "owner" \/ ~createRecordingSchema(t, m) \/ ~isAllowedMimeType(m)
       /\ CreateRecordingRequest(u, t, m)
  \/ \E u \in Users, f \in FileSizeInputs :
       /\ u # "owner" \/ ~completeUploadBodySchema(f)
       /\ CompleteUploadRequest(u, f)
  \/ \E u \in Users \ {"owner"} : RetryDebriefRequest(u)
  \/ \E u \in Users \ {"owner"} : RetryTranscriptionRequest(u)
  \/ \E op \in ReadOps, u \in Users : ReadRequest(op, u)

\* the steps of the create and complete-upload handlers
UploadStep ==
  \E s \in SlotIds :
    \/ CreateRecording(s)
    \/ SetRecordingObjectKey(s)
    \/ CompleteUploadGet(s)
    \/ CompleteUploadExists(s)
    \/ CompleteUploadMark(s)
    \/ CompleteUploadCreateJob(s)
    \/ CompleteUploadEnqueue(s)
    \/ CompleteUploadProcessing(s)
    \/ Respond(s)

\* the steps of the retry handlers
RetryStep ==
  \E s \in SlotIds :
    \/ RetryDebriefGet(s)
    \/ RetryDebriefFind(s)
    \/ RetryDebriefFlip(s)
    \/ RetryDebriefCreateJob(s)
    \/ RetryDebriefEnqueue(s)
    \/ RetryTranscriptionGet(s)
    \/ RetryTranscriptionFind(s)
    \/ RetryTranscriptionFlip(s)
    \/ RetryTranscriptionCreateJob(s)
    \/ RetryTranscriptionEnqueue(s)

\* the steps of the two workers in which no awaited call throws
WorkerStep ==
  \E i \in 1 .. MaxTickets :
    \/ TranscriptionRunning(i)
    \/ TranscriptionUpsert(i)
    \/ TranscriptionComplete(i)
    \/ TranscriptionCreateDebrief(i)
    \/ TranscriptionEnqueueDebrief(i)
    \/ DebriefRunning(i)
    \/ DebriefUpsert(i)
    \/ DebriefComplete(i)
    \/ DebriefRecordingComplete(i)

\* the catch blocks of the two workers
CatchStep ==
  \E i \in 1 .. MaxTickets :
    \/ TranscriptionCatchJob(i)
    \/ TranscriptionCatchRecording(i)
    \/ DebriefCatchJob(i)
    \/ DebriefCatchRecording(i)

\* an awaited call throws
Throw ==
  \/ \E s \in SlotIds : HandlerThrow(s)
  \/ \E i \in 1 .. MaxTickets :
       \/ TranscriptionRunningThrow(i)
       \/ TranscriptionThrow(i)
       \/ DebriefRunningThrow(i)
       \/ DebriefThrow(i)

Next ==
  \/ Request
  \/ ClientUpload
  \/ UploadStep
  \/ RetryStep
  \/ WorkerStep
  \/ CatchStep
  \/ Throw

Spec == Init /\ [][Next]_vars

\* the same system with the requests the boundary turns away, one throw allowed
InitBoundary ==
  /\ recording = NoRecording
  /\ objectStored = FALSE
  /\ jobs = <<>>
  /\ transcripts = <<>>
  /\ debriefs = <<>>
  /\ transcriptionQueue = <<>>
  /\ debriefQueue = <<>>
  /\ handlers = [s \in 1 .. MaxInFlight |-> Idle]
  /\ requests = 0
  /\ throws = MaxBoundaryThrows
  /\ poller = Unmounted
  /\ upload = NotCalled
  /\ page = Blank

NextBoundary ==
  \/ Next
  \/ BoundaryRequest
  \/ \E s \in SlotIds : ReadGet(s) \/ ReadJobs(s)

SpecBoundary == InitBoundary /\ [][NextBoundary]_vars

\* create, upload, complete-upload and the two workers; no retry request and no
\* saveTranscript call is issued
NextUpload ==
  \/ UploadRequest
  \/ ClientUpload
  \/ UploadStep
  \/ WorkerStep
  \/ CatchStep
  \/ Throw

\* Node's event loop and BullMQ run every handler and every dispatched or waiting
\* unit of work to its end; nothing obliges a client to send a request or a call
\* to throw
Fairness == WF_vars(UploadStep) /\ WF_vars(WorkerStep) /\ WF_vars(CatchStep)

LiveSpec == Init /\ [][NextUpload]_vars /\ Fairness

\* the same with no awaited call throwing
NextHappy ==
  \/ UploadRequest
  \/ ClientUpload
  \/ UploadStep
  \/ WorkerStep

HappySpec == Init /\ [][NextHappy]_vars

\* the detail page alone: the server is what the fetched results say it is
PollSpec == Init /\ [][PollStep]_vars

\* one call of uploadToPresignedUrl alone
TransportSpec == Init /\ [][TransportStep]_vars

\* the create and mark-upload-complete handlers with two requests in flight at
\* a time (Fastify starts a handler per request and runs them interleaved at
\* their awaits); no worker runs and nothing throws
ConcurrentHandlers == 2

InitConcurrent ==
  /\ recording = NoRecording
  /\ objectStored = FALSE
  /\ jobs = <<>>
  /\ transcripts = <<>>
  /\ debriefs = <<>>
  /\ transcriptionQueue = <<>>
  /\ debriefQueue = <<>>
  /\ handlers = [s \in 1 .. ConcurrentHandlers |-> Idle]
  /\ requests = 0
  /\ throws = 0
  /\ poller = Unmounted
  /\ upload = NotCalled
  /\ page = Blank

NextConcurrent ==
  \/ UploadRequest
  \/ ClientUpload
  \/ UploadStep

ConcurrentSpec == InitConcurrent /\ [][NextConcurrent]_vars

\* the Job ledger under the calls of the processors alone
LedgerSpec == Init /\ [][LedgerStep]_vars

\* ------------------------------------------------------------------ claims
Processing == recording.status = "processing"
Terminal == recording.status \in {"complete", "failed"}

TranscriptExists == RowsOf(transcripts, RecordingId) # {}
DebriefExists == RowsOf(debriefs, RecordingId) # {}

\* C1: liveness: a Recording whose status is processing eventually reaches
\* complete or failed (the handlers and the workers being scheduled fairly), also
\* when the worker finishes before mark-upload-complete has made its own writes.
C1_ProcessingEnds == [](Processing => <>Terminal)

\* C2: in every reachable state, status complete implies that a Transcript row and
\* a Debrief row exist for the recording.
C2_CompleteHasArtifacts ==
  recording.status = "complete" => TranscriptExists /\ DebriefExists

\* C3: in every reachable state, status failed implies that the most recently
\* created Job row of at least one stage has status failed.
C3_FailedHasFailedJob ==
  recording.status = "failed" =>
    \E type \in {"TRANSCRIBE", "DEBRIEF"} :
      /\ JobsOfType(type) # {}
      /\ jobs[LatestJob(type)].status = "failed"

\* C4: every unit of work in a queue carries the id of a Job row of its stage that
\* exists, so the row was created before queue.add was called with it.
C4_JobRowBeforeEnqueue ==
  /\ \A i \in Tickets(transcriptionQueue) :
       /\ transcriptionQueue[i].jobId \in 1 .. Len(jobs)
       /\ jobs[transcriptionQueue[i].jobId].type = "TRANSCRIBE"
  /\ \A i \in Tickets(debriefQueue) :
       /\ debriefQueue[i].jobId \in 1 .. Len(jobs)
       /\ jobs[debriefQueue[i].jobId].type = "DEBRIEF"

\* the three enqueue sites have all been used: mark-upload-complete and a retry
\* operation (two units in one queue) and the chaining step
C4_Witness ==
  /\ Len(transcriptionQueue) + Len(debriefQueue) >= 3
  /\ Len(transcriptionQueue) >= 1
  /\ Len(debriefQueue) >= 1

\* C5: a handler that has written status processing has first attempted the
\* enqueue of that transition.
C5_EnqueueBeforeProcessing ==
  \A s \in Slots : handlers[s].processing => handlers[s].enqueued

\* the processor of unit i of queue q returned or threw in this step
Returned(q, qNext, i) ==
  /\ i \in Tickets(q)
  /\ q[i].pc \notin Resting
  /\ qNext[i].pc = "completed"

Escaped(q, qNext, i) ==
  /\ i \in Tickets(q)
  /\ q[i].pc \notin Resting
  /\ qNext[i].pc \in {"wait", "failed"}

TicketIds == 1 .. MaxTickets

\* C6: exactly one Transcript row exists once the stage has run, and when a run of
\* the transcription stage is marked complete the row holds that run's output
\* (or the text a saveTranscript call has put there since).
C6_LatestCompletedRun ==
  [][/\ Len(transcripts') <= 1
     /\ \A i \in TicketIds :
          TranscriptionComplete(i) =>
            relationOf(transcripts', RecordingId) \in
              {transcriptionQueue[i].text, SavedText}]_vars

\* C7: the step that answers a request with 400 leaves every Recording, Job,
\* Transcript and Debrief row, the stored object and both queues unchanged, and the
\* handler has written nothing before it; a rejected mark-upload-complete leaves a
\* pending Recording pending.
C7_RejectedLeavesStateUnchanged ==
  [][\A s \in Slots :
       (handlers[s].pc # "replied" /\ handlers'[s].pc = "replied"
          /\ handlers'[s].code = 400) =>
         /\ UNCHANGED <<db, objectStored, queues>>
         /\ ~handlers'[s].mutated
         /\ ~handlers'[s].enqueued]_vars

\* mark-upload-complete has been rejected because the object is not in storage
C7_Witness ==
  \E s \in Slots :
    /\ handlers[s].op = "completeUpload"
    /\ handlers[s].pc = "replied"
    /\ handlers[s].code = 400
    /\ recording.status = "pending"
    /\ recording.objectKey
    /\ ~objectStored

C9_HappyPath ==
  [][/\ (recording.status = "uploaded" /\ recording'.status # "uploaded") =>
          recording'.status = "processing"
     /\ (recording.status = "pending" /\ recording'.status # "pending") =>
          recording'.status = "uploaded"
     /\ (recording.status # "complete" /\ recording'.status = "complete") =>
          \E i \in TicketIds : Returned(debriefQueue, debriefQueue', i)
     /\ \A i \in TicketIds :
          Returned(transcriptionQueue, transcriptionQueue', i) =>
            /\ RowsOf(transcripts', RecordingId) # {}
            /\ jobs'[transcriptionQueue[i].jobId].status = "complete"
            /\ jobs'[transcriptionQueue[i].debriefJobId].type = "DEBRIEF"
            /\ jobs'[transcriptionQueue[i].debriefJobId].status = "pending"
     /\ \A i \in TicketIds :
          Returned(debriefQueue, debriefQueue', i) =>
            /\ RowsOf(debriefs', RecordingId) # {}
            /\ recording'.status = "complete"]_vars

CatchPcs == {"catchJob", "catchRecording"}

\* unit i of queue q is on a failure path in this step: an awaited call throws, or
\* the catch block runs
Failing(q, qNext, i) ==
  /\ i \in Tickets(q)
  /\ qNext[i] # q[i]
  /\ q[i].pc \in CatchPcs \/ qNext[i].pc \in CatchPcs

\* C11: no step of a failure path of either worker (the throw, the catch block's
\* writes, the re-raise) changes a Transcript or Debrief row, and no step of the
\* debrief processor at all changes a Transcript row.
C11_FailureKeepsArtifacts ==
  [][/\ \A i \in TicketIds :
          (Failing(transcriptionQueue, transcriptionQueue', i)
             \/ Failing(debriefQueue, debriefQueue', i)) =>
            UNCHANGED <<transcripts, debriefs>>
     /\ debriefQueue' # debriefQueue /\ Len(debriefQueue') = Len(debriefQueue) =>
          UNCHANGED transcripts]_vars

\* a debrief processor has thrown and re-raised, and the Transcript is there
C11_Witness ==
  /\ TranscriptExists
  /\ recording.status = "failed"
  /\ \E i \in Tickets(debriefQueue) :
       /\ debriefQueue[i].pc = "wait"
       /\ debriefQueue[i].attemptsMade > 0
       /\ jobs[debriefQueue[i].jobId].status = "failed"

\* C12: the Recording's status becomes complete only in the step in which a
\* debrief processor succeeds, and no step of a transcription processor's try
\* block changes the status.
C12_CompleteOnlyAfterDebrief ==
  [][/\ (recording.status # "complete" /\ recording'.status = "complete") =>
          \E i \in TicketIds : Returned(debriefQueue, debriefQueue', i)
     /\ \A i \in TicketIds :
          (/\ i \in Tickets(transcriptionQueue)
           /\ transcriptionQueue'[i] # transcriptionQueue[i]
           /\ transcriptionQueue'[i].pc \notin CatchPcs \cup {"wait", "failed"}) =>
            recording'.status = recording.status]_vars

\* the lifecycle order of the status values
Rank(status) ==
  CASE status = "absent" -> 0
    [] status = "pending" -> 1
    [] status = "uploaded" -> 2
    [] status = "processing" -> 3
    [] OTHER -> 4

\* C13: the status moves to an earlier lifecycle state only in the step in which
\* a retry operation re-enters processing.
C13_MonotonicStatus ==
  [][Rank(recording'.status) < Rank(recording.status) =>
       \E s \in SlotIds : RetryDebriefFlip(s) \/ RetryTranscriptionFlip(s)]_vars

\* C14: the status of a pending Recording changes only to uploaded, in
\* mark-upload-complete, after objectExists has returned true.
C14_LeavesPendingByUploadOnly ==
  [][(recording.status = "pending" /\ recording'.status # "pending") =>
       /\ recording'.status = "uploaded"
       /\ objectStored
       /\ \E s \in SlotIds : CompleteUploadMark(s)]_vars

LegalJobTransitions ==
  {<<"pending", "running">>, <<"running", "complete">>, <<"running", "failed">>}

\* C15: the status of a Job row changes only pending -> running, running ->
\* complete or running -> failed, and a step that leaves the status alone leaves
\* the whole row alone.
C15_LegalJobTransitions ==
  [][\A j \in 1 .. Len(jobs) :
       IF jobs'[j].status # jobs[j].status
       THEN <<jobs[j].status, jobs'[j].status>> \in LegalJobTransitions
       ELSE jobs'[j] = jobs[j]]_vars

RetryOps == {"retryDebrief", "retryTranscription"}
StageOf(op) == IF op = "retryDebrief" THEN "DEBRIEF" ELSE "TRANSCRIBE"

\* C16: no step of a retry operation changes an existing Job row, and the step
\* in which it creates its Job appends exactly one row, of its stage and pending.
C16_RetryAppendsJob ==
  [][\A s \in Slots :
       (handlers[s].op \in RetryOps /\ handlers'[s] # handlers[s]) =>
         /\ Len(jobs') >= Len(jobs)
         /\ SubSeq(jobs', 1, Len(jobs)) = jobs
         /\ (handlers[s].pc = "createJob" /\ handlers'[s].pc = "enqueue") =>
              /\ Len(jobs') = Len(jobs) + 1
              /\ jobs'[Len(jobs')].type = StageOf(handlers[s].op)
              /\ jobs'[Len(jobs')].status = "pending"
              /\ handlers'[s].jobId = Len(jobs')]_vars

\* a retry-transcription has added its row after a failed earlier one
C16_Witness ==
  /\ \E s \in Slots : handlers[s].op = "retryTranscription" /\ handlers[s].pc = "enqueue"
  /\ Cardinality(JobsOfType("TRANSCRIBE")) >= 2
  /\ jobs[LatestJob("TRANSCRIBE")].status = "pending"
  /\ \E j \in JobsOfType("TRANSCRIBE") : jobs[j].status = "failed"

RunningJobs(type) == {j \in JobsOfType(type) : jobs[j].status = "running"}

\* C17: at no time are two Job rows of the same stage running.
C17_OneRunningJobPerStage ==
  \A type \in {"TRANSCRIBE", "DEBRIEF"} : Cardinality(RunningJobs(type)) <= 1

\* C18: whenever a debrief unit of work is added to the queue, a Transcript row of
\* the recording is already there.
C18_TranscriptBeforeDebriefEnqueue ==
  [][Len(debriefQueue') > Len(debriefQueue) => TranscriptExists]_vars

\* both enqueue sites have been used: the chaining step and retry-debrief
C18_Witness ==
  /\ Len(debriefQueue) >= 2
  /\ Cardinality(JobsOfType("TRANSCRIBE")) = 1
  /\ TranscriptExists

\* C19: a mark-upload-complete or retry operation that fails (answers 500) has
\* changed no row and no queue.
C19_OrchestratorAtomic ==
  \A s \in Slots :
    (handlers[s].op \in RetryOps \cup {"completeUpload"}
       /\ handlers[s].pc = "replied" /\ handlers[s].code = 500) =>
      ~handlers[s].mutated

ActiveJobs == {j \in 1 .. Len(jobs) : jobs[j].status \in {"pending", "running"}}

\* C20: whenever the status is processing, some Job row is pending or running.
C20_ProcessingHasActiveJob == Processing => ActiveJobs # {}

\* ------------------------------------------------- claims: ownership
RecordingScoped == ReadOps \cup {"completeUpload", "retryDebrief", "retryTranscription"}

Mounted == poller.recordingId # 0
BaseDelays == BaseDelayMs .. BaseDelayMs + JitterMs - 1
CappedDelay(delay) == Min(delay, CapDelayMs)

\* C21: a scheduled delay is min(1500 * 2^attempt, 20000) ms plus a jitter in
\* [0, 250) ms, and within a run of polls that observe equal fingerprints the
\* delay scheduled after a poll is never below the delay of that poll, up to
\* the cap: it is larger while the cap is not reached, and once both are at
\* the cap they differ by jitter only.
C21_DelaysNonDecreasing ==
  poller.timeout # 0 =>
    /\ \E jitter \in 0 .. JitterMs - 1 :
         poller.timeout = Min(BaseDelayMs * 2 ^ poller.attempt, CapDelayMs) + jitter
    /\ CappedDelay(poller.timeout) >= CappedDelay(poller.polled)
    /\ poller.polled # 0 /\ poller.polled < CapDelayMs => poller.timeout > poller.polled

\* a run that reached the cap: the poll before waited 20249 ms, the next waits 20000 ms
C21_Witness ==
  /\ poller.attempt = 5
  /\ poller.polled = CapDelayMs + JitterMs - 1
  /\ poller.timeout = CapDelayMs

\* C22: when a result has another fingerprint (status, transcript present,
\* debrief present) than the result before it, the attempt counter is 0 after
\* the step and the poll it schedules waits the base delay plus jitter,
\* whatever the counter was.
C22_ChangedFingerprintResets ==
  [][/\ Mounted
     /\ poller'.recordingId = poller.recordingId
     /\ fingerprint(poller'.data) # fingerprint(poller.data)
     => /\ poller'.attempt = 0
        /\ poller'.timeout # 0 => poller'.timeout \in BaseDelays
        /\ ~isTerminalRecordingState(poller'.data) => poller'.timeout # 0]_vars

\* a reset that found the counter at 3 or more
C22_Witness ==
  /\ poller.resetFrom >= 3
  /\ poller.attempt = 0
  /\ poller.polled = 0
  /\ poller.timeout \in BaseDelays

\* C23: the poller has no poll scheduled exactly when the last result is
\* failed, or complete with a debrief; after any other result (complete
\* without debrief included) a poll is scheduled or in flight.
C23_StopsExactlyAtTerminal ==
  Mounted =>
    /\ isTerminalRecordingState(poller.data) => poller.timeout = 0
    /\ ~isTerminalRecordingState(poller.data) => poller.timeout # 0 \/ poller.fetching

\* C24: a pending timer always belongs to the recording being watched, and the
\* step that changes the watched recording leaves the attempt counter at 0, the
\* last-seen fingerprint empty or that of the new recording, and no timer but
\* one scheduled for the new recording with the base delay.
C24_SwitchCancelsAndResets ==
  /\ [](poller.timeout # 0 => poller.timerFor = poller.recordingId)
  /\ [][Mounted /\ poller'.recordingId # poller.recordingId
        => /\ poller'.attempt = 0
           /\ poller'.lastKey \in {<<>>, fingerprint(poller'.data)}
           /\ poller'.timeout # 0 => poller'.timeout \in BaseDelays]_vars

\* the recording changed while a timer was pending, and a poll of the new one is scheduled
C24_Witness ==
  /\ poller.cancelled
  /\ poller.attempt = 0
  /\ poller.timeout # 0
  /\ poller.timerFor = poller.recordingId

\* the detail page shows the failed panel (isFailed)
ShownFailed ==
  /\ poller.data # NoData
  /\ poller.data.status = "failed" \/ page.hasFailedJob

\* C29: on a recording shown as failed, a usable Transcript leaves "retry
\* debrief" as the only possible offer (made when the debrief is missing), no
\* usable Transcript (none, or the mock text) makes "retry transcription" an
\* offer when the object key is there, and the two are never offered together,
\* whatever the transcript, the debrief and the object key are.
C29_RetryOffers ==
  ShownFailed =>
    /\ poller.data.transcript = "real" =>
         page.offers = (IF poller.data.debrief THEN {} ELSE {"retryDebrief"})
    /\ poller.data.transcript \in {"none", "mock"} /\ poller.data.objectKey =>
         "retryTranscription" \in page.offers
    /\ Cardinality(page.offers) <= 1

\* C37: polling continuity: every step in which a poll completes with a
\* non-terminal state, the same state as before included, leaves a next poll
\* scheduled.
C37_PollScheduledAfterEveryResult ==
  [][(/\ poller.fetching /\ ~poller'.fetching
      /\ poller'.recordingId = poller.recordingId
      /\ ~isTerminalRecordingState(poller'.data))
     => poller'.timeout # 0]_vars

\* -------------------------------------------------- claims: upload transport
RetriableStatuses == {408, 429} \cup (500 .. 599)

\* an uploadOnce call ends in this step
Concluded ==
  /\ upload'.pc \in {"sleep", "returned"}
  /\ upload.pc = "transfer" \/ upload'.calls # upload.calls

\* C25: while every transfer answers 503 and the caller does not abort, the
\* wait before retry k is 500 * 2^(k-1) ms plus a jitter in [0, 200) ms and
\* longer than the wait before it, no retry follows attempt maxRetries + 1, and
\* the call returns non-ok with attempts = maxRetries + 1 after exactly
\* maxRetries + 1 transfers.
C25_Retries503 ==
  upload.only503 /\ ~upload.aborted /\ upload.transfers > 0 =>
    /\ upload.pc = "sleep" =>
         /\ upload.attempt <= upload.maxRetries
         /\ \E jitter \in 0 .. UploadJitterMs - 1 :
              upload.delay = UploadBaseMs * 2 ^ (upload.attempt - 1) + jitter
         /\ upload.delay > upload.previous
    /\ upload.pc = "returned" =>
         /\ ~upload.result.ok
         /\ upload.result.attempts = upload.maxRetries + 1
         /\ upload.transfers = upload.maxRetries + 1

\* four transfers answered 503 with maxRetries = 3, and the call has returned
C25_Witness ==
  /\ upload.pc = "returned"
  /\ upload.only503 /\ ~upload.aborted
  /\ upload.maxRetries = 3
  /\ upload.transfers = 4
  /\ upload.previous > 0

\* C26: a failed attempt is followed by a backoff wait and another attempt only
\* if it failed as network, as timeout, or as http_error with status 408, 429
\* or 500..599; after an http_error with another status or an aborted failure
\* the call returns with that attempt.
C26_RetryOnlyTransient ==
  [][Concluded =>
       /\ upload'.pc = "sleep" =>
            \/ upload'.last.reason \in {"network", "timeout"}
            \/ /\ upload'.last.reason = "http_error"
               /\ upload'.last.status \in RetriableStatuses
       /\ \/ upload'.last.reason = "aborted"
          \/ /\ upload'.last.reason = "http_error"
             /\ upload'.last.status \notin RetriableStatuses
          => /\ upload'.pc = "returned"
             /\ upload'.result.reason = upload'.last.reason
             /\ upload'.result.attempts = upload'.calls]_vars

\* C27: after the caller's signal has fired no transfer is started, and a call
\* whose signal fired before it returned (before the call, during a transfer
\* or during a backoff wait) returns non-ok with reason aborted.
C27_AbortShortCircuits ==
  /\ [][upload.aborted => upload'.transfers = upload.transfers]_vars
  /\ [](/\ upload.pc = "returned"
        /\ upload.maxRetries >= 0
        /\ upload.abortAt \in {"idle", "transfer", "sleep"}
        => ~upload.result.ok /\ upload.result.reason = "aborted")

\* a transfer is in flight or a backoff wait is running, and the call can go on
TransportProgress ==
  \/ \E e \in TransferEvents, random \in UploadJitterInputs : TransferEnds(e, random)
  \/ \E sendThrows \in BOOLEAN, random \in UploadJitterInputs : SleepEnds(sendThrows, random)

\* C28: for maxRetries >= 0 a call makes at most maxRetries + 1 attempts and at
\* most as many transfers, can always go on until it returns, returns attempts
\* = the number of uploadOnce calls it made (= the transfers it started when the
\* signal did not fire), and returns ok exactly when its last attempt was
\* answered with a 2xx status.
C28_TerminatesWithinRetries ==
  upload.maxRetries >= 0 =>
    /\ upload.calls <= upload.maxRetries + 1
    /\ upload.transfers <= upload.calls
    /\ upload.pc \in {"transfer", "sleep"} => ENABLED TransportProgress
    /\ upload.pc = "returned" =>
         /\ upload.result.attempts = upload.calls
         /\ upload.abortAt \in {"", "returned"} => upload.result.attempts = upload.transfers
         /\ upload.result.ok <=> (upload.last.status >= 200 /\ upload.last.status < 300)

\* the fourth attempt of a call with maxRetries = 3 was answered 2xx
C28_Witness ==
  /\ upload.pc = "returned"
  /\ upload.maxRetries = 3
  /\ upload.calls = 4
  /\ upload.result.ok
  /\ upload.result.attempts = 4

\* ------------------------------------------------ claims: handlers and workers
\* C32: a handler of mark-upload-complete or of a retry that has enqueued its
\* unit of work does not write the Recording's status once a worker has made it
\* failed or complete: its own processing write never replaces the outcome.
C32_NoWriteAfterOutcome ==
  [][\A s \in Slots :
       (/\ handlers[s].enqueued
        /\ handlers'[s] # handlers[s]
        /\ recording.status \in {"failed", "complete"})
       => recording'.status = recording.status]_vars

\* C33: whatever the interleaving of concurrent mark-upload-complete calls for
\* one pending Recording, at most one TRANSCRIBE Job row is created and at most
\* one transcription unit of work is enqueued.
C33_OneTranscribeJobPerUpload ==
  /\ Cardinality(JobsOfType("TRANSCRIBE")) <= 1
  /\ Len(transcriptionQueue) <= 1

\* Job rows whose unit of work is in a queue and not finished
QueuedJobs ==
  {transcriptionQueue[i].jobId :
     i \in {k \in Tickets(transcriptionQueue) :
              transcriptionQueue[k].pc \notin {"completed", "failed"}}}
  \cup {debriefQueue[i].jobId :
          i \in {k \in Tickets(debriefQueue) :
                   debriefQueue[k].pc \notin {"completed", "failed"}}}

\* C34: while a Job row is running, or pending with its unit of work queued,
\* the Recording's status is uploaded or processing, also between the attempts
\* of a unit and during the chained debrief stage.
C34_ActiveJobImpliesInProgress ==
  (\E j \in 1 .. Len(jobs) :
     \/ jobs[j].status = "running"
     \/ jobs[j].status = "pending" /\ j \in QueuedJobs)
  => recording.status \in {"uploaded", "processing"}

\* C35: once the status is failed it changes again only in a step of a
\* retry-transcription or retry-debrief handler; otherwise it stays failed.
C35_FailedLeftOnlyByRetry ==
  [][(recording.status = "failed" /\ recording'.status # "failed")
     => \E s \in Slots : /\ handlers[s].op \in RetryOps
                          /\ handlers'[s] # handlers[s]]_vars

\* C36: when the Recording is complete, no Job is pending or running and a
\* Debrief row exists, that row was generated from the text the Transcript row
\* holds now; a unit carrying a superseded text never leaves the final Debrief.
C36_DebriefFromCurrentTranscript ==
  (/\ recording.status = "complete"
   /\ ActiveJobs = {}
   /\ DebriefExists)
  => relationOf(debriefs, RecordingId) = relationOf(transcripts, RecordingId)

\* ------------------------------------------------------ claims: job ledger
\* C31: the error message stored in a failed Job row is never longer than the
\* limit: a longer error text is cut before it is written.
C31_ErrorMessageBounded ==
  \A j \in 1 .. Len(jobs) : jobs[j].status = "failed" => jobs[j].error <= ErrorBound

\* C40: a Job row whose status is complete has no error message recorded, also
\* when an earlier attempt of its unit of work failed and a later one succeeded.
C40_CompleteJobHasNoError ==
  \A j \in 1 .. Len(jobs) : jobs[j].status = "complete" => jobs[j].error = 0

\* ---------------------------------------------------- claims: jobs poller
\* isTerminalJobsState: a job list that is not empty and has no pending or
\* running row; the jobs poller schedules no further poll when it sees one
isTerminalJobsState(js) ==
  IF Len(js) = 0 THEN FALSE
  ELSE ~\E j \in 1 .. Len(js) : js[j].status \in {"pending", "running"}

\* C38: the jobs poller stops only when the pipeline has quiesced: a job list
\* it treats as terminal is never followed by a step in which a worker, and no
\* request handler, creates or changes a Job row.
C38_JobsTerminalMeansQuiesced ==
  [][(isTerminalJobsState(jobs) /\ jobs' # jobs) => handlers' # handlers]_vars

\* C39: once the signal has fired during a transfer, that transfer is over
\* (aborted), and the upload, when it has returned, returned a non-ok outcome
\* with reason aborted.
C39_AbortDuringTransfer ==
  upload.abortAt = "transfer" =>
    /\ upload.pc # "transfer"
    /\ upload.pc = "returned" =>
         ~upload.result.ok /\ upload.result.reason = "aborted"
====
